---------------------------- MODULE Spec2Model ----------------------------
(***************************************************************************)
(* A model of the SEO auditor of src/app.py: the analyzer checklist        *)
(* (analyze_website), the auto-fixer (generate_fixed_page), the scan       *)
(* request handler (home) and the history table (init_db).                 *)
(*                                                                         *)
(* Python strings are sequences of one-character strings, so that strip,   *)
(* startswith, replace and lower are computed as Python computes them.     *)
(* A parsed document is a head and a body, each absent or a sequence of    *)
(* elements; find and find_all search them in document order.  Markup is   *)
(* the tree it parses to plus whether it is written the way the serializer *)
(* writes it; platform detection, load_time and the PDF export read no     *)
(* state the properties below are about and are left out.                  *)
(***************************************************************************)
EXTENDS Integers, Sequences, FiniteSets, TLC

VARIABLES
    pc,         \* where the process is: which operation has last acted
    url,        \* the URL of the request being handled (stripped), or None
    ownership,  \* the ownership form field of the request
    response,   \* the response the analyzer read (text and its length)
    scan,       \* the dict analyze_website returned to home(), or NoResult
    result,     \* the dict handed to render_template, or NoResult
    gets,       \* the URLs of the GETs issued while handling the request
    unhandled,  \* the exception that left home() uncaught, or "none"
    history,    \* the rows of seo_results, in insertion order
    tableExists,\* whether seo_data.db holds the seo_results table
    html,       \* the markup handed to generate_fixed_page
    fixedFile,  \* fixed_sites/corrected_page.html: [exists, text]
    prevFile,   \* the file as it was before the last generate_fixed_page
    served      \* how many requests the process has handled

vars == <<pc, url, ownership, response, scan, result, gets, unhandled, history,
          tableExists, html, fixedFile, prevFile, served>>

-----------------------------------------------------------------------------
(* Bounds of the model *)

\* most <h1> elements in a generated page
MaxH1 == 1
\* most <img> elements without an alt attribute in a generated page
MaxNoAlt == 6
\* most <a href> elements in a generated page
MaxLinks == 5
\* most scan requests one process run handles
MaxRequests == 2

(* Program constants *)

\* score = 100
START_SCORE == 100
\* score -= 10
PENALTY == 10
\* if missing_alt > 5
ALT_THRESHOLD == 5
\* if len(links) < 5
MIN_LINKS == 5
\* if len(response.text) < 500
MIN_LENGTH == 500

-----------------------------------------------------------------------------
(* Python values *)

\* Python's None, where a string could stand
None == <<"None">>

\* bool(v) of a string or None
Truthy(v) == v # None /\ v # <<>>

WHITESPACE == {" ", "\t", "\n", "\r"}

RECURSIVE LStrip(_)
LStrip(s) ==
    IF s # <<>> /\ Head(s) \in WHITESPACE THEN LStrip(Tail(s)) ELSE s

RECURSIVE RStrip(_)
RStrip(s) ==
    IF s # <<>> /\ s[Len(s)] \in WHITESPACE
    THEN RStrip(SubSeq(s, 1, Len(s) - 1))
    ELSE s

\* str.strip()
Strip(s) == RStrip(LStrip(s))

\* str.startswith(prefix)
StartsWith(s, prefix) ==
    Len(s) >= Len(prefix) /\ SubSeq(s, 1, Len(prefix)) = prefix

\* str.replace(old, new): every occurrence, left to right
RECURSIVE Replace(_, _, _)
Replace(s, old, new) ==
    IF s = <<>> THEN <<>>
    ELSE IF StartsWith(s, old)
         THEN new \o Replace(SubSeq(s, Len(old) + 1, Len(s)), old, new)
         ELSE <<Head(s)>> \o Replace(Tail(s), old, new)

UPPERCASE ==
    <<"A", "B", "C", "D", "E", "F", "G", "H", "I", "J", "K", "L", "M",
      "N", "O", "P", "Q", "R", "S", "T", "U", "V", "W", "X", "Y", "Z">>
LOWERCASE ==
    <<"a", "b", "c", "d", "e", "f", "g", "h", "i", "j", "k", "l", "m",
      "n", "o", "p", "q", "r", "s", "t", "u", "v", "w", "x", "y", "z">>

LowerChar(c) ==
    IF \E i \in 1..26 : UPPERCASE[i] = c
    THEN LOWERCASE[CHOOSE i \in 1..26 : UPPERCASE[i] = c]
    ELSE c

\* str.lower()
Lower(s) == [i \in 1..Len(s) |-> LowerChar(s[i])]

-----------------------------------------------------------------------------
(* String literals of the program *)

\* src/app.py:184  "http://"
HTTP_PREFIX ==
    <<"h", "t", "t", "p", ":", "/", "/">>

\* src/app.py:184  "https://"
HTTPS_PREFIX ==
    <<"h", "t", "t", "p", "s", ":", "/", "/">>

\* src/app.py:51  "description"
NAME_DESCRIPTION ==
    <<"d", "e", "s", "c", "r", "i", "p", "t", "i", "o", "n">>

\* src/app.py:89  "viewport"
NAME_VIEWPORT ==
    <<"v", "i", "e", "w", "p", "o", "r", "t">>

\* src/app.py:96  "application/ld+json"
TYPE_LD_JSON ==
    <<"a", "p", "p", "l", "i", "c", "a", "t", "i", "o", "n", "/", "l", "d", "+", "j", "s", "o", "n">>

\* src/app.py:50  "No title found"
NO_TITLE ==
    <<"N", "o", " ", "t", "i", "t", "l", "e", " ", "f", "o", "u", "n", "d">>

\* src/app.py:52  "No meta description found"
NO_META_DESC ==
    <<"N", "o", " ", "m", "e", "t", "a", " ", "d", "e", "s", "c", "r", "i", "p", "t", "i", "o", "n", " ", "f", "o", "u", "n", "d">>

\* src/app.py:141
FIX_TITLE ==
    <<"A", "I", " ", "O", "p", "t", "i", "m", "i", "z", "e", "d", " ", "P", "a", "g", "e">>

\* src/app.py:145
FIX_META_DESC ==
    <<"A", "I", " ", "o", "p", "t", "i", "m", "i", "z", "e", "d", " ", "m", "e", "t", "a", " ", "d", "e", "s", "c", "r", "i", "p", "t", "i", "o", "n", ".">>

\* src/app.py:149
FIX_VIEWPORT ==
    <<"w", "i", "d", "t", "h", "=", "d", "e", "v", "i", "c", "e", "-", "w", "i", "d", "t", "h", ",", " ", "i", "n", "i", "t", "i", "a", "l", "-", "s", "c", "a", "l", "e", "=", "1", ".", "0">>

\* src/app.py:164
FIX_ALT ==
    <<"A", "I", " ", "a", "d", "d", "e", "d", " ", "i", "m", "a", "g", "e", " ", "d", "e", "s", "c", "r", "i", "p", "t", "i", "o", "n">>

\* src/app.py:168
FIX_H1 ==
    <<"A", "I", " ", "G", "e", "n", "e", "r", "a", "t", "e", "d", " ", "H", "e", "a", "d", "i", "n", "g", " ", "f", "o", "r", " ", "S", "E", "O", " ", "I", "m", "p", "r", "o", "v", "e", "m", "e", "n", "t">>

\* src/app.py:154-158, the text before %s
SCHEMA_HEAD ==
    <<"{", "\n", " ", " ", " ", " ", " ", " ", " ", " ", " ", " ", " ", " ", "\"", "@", "c", "o", "n", "t", "e", "x", "t", "\"", ":", " ", "\"", "h", "t", "t", "p", "s", ":", "/", "/", "s", "c", "h", "e", "m", "a", ".", "o", "r", "g", "\"", ",", "\n", " ", " ", " ", " ", " ", " ", " ", " ", " ", " ", " ", " ", "\"", "@", "t", "y", "p", "e", "\"", ":", " ", "\"", "W", "e", "b", "S", "i", "t", "e", "\"", ",", "\n", " ", " ", " ", " ", " ", " ", " ", " ", " ", " ", " ", " ", "\"", "n", "a", "m", "e", "\"", ":", " ", "\"", "S", "m", "a", "r", "t", " ", "S", "E", "O", " ", "A", "u", "d", "i", "t", "o", "r", "\"", ",", "\n", " ", " ", " ", " ", " ", " ", " ", " ", " ", " ", " ", " ", "\"", "u", "r", "l", "\"", ":", " ", "\"">>

\* src/app.py:158-159, the text after %s
SCHEMA_TAIL ==
    <<"\"", "\n", " ", " ", " ", " ", " ", " ", " ", " ", "}">>

\* src/app.py:196  "yes"
YES == <<"y", "e", "s">>

\* src/app.py:182  "no", the default of the ownership field
NO == <<"n", "o">>

\* src/app.py:45
FAILED_TO_CONNECT ==
    "Failed to connect to the website. It may be offline or blocking requests."

\* src/app.py:185
INVALID_URL == "Please enter a valid URL starting with http or https."

\* src/app.py:171
FILE_PATH == "fixed_sites/corrected_page.html"

-----------------------------------------------------------------------------
(* The parsed document (BeautifulSoup) *)

\* a Tag: its name, the attributes the program reads, and Tag.string
Element(tag, name, content, type, alt, href, string) ==
    [tag |-> tag, name |-> name, content |-> content, type |-> type,
     alt |-> alt, href |-> href, string |-> string]

\* soup.new_tag(tag, attrs=...) followed by the assignment of .string
new_tag(tag, name, content, type, string) ==
    Element(tag, name, content, type, None, None, string)

TitleTag(string) == Element("title", None, None, None, None, None, string)
MetaTag(name, content) == Element("meta", name, content, None, None, None, None)
ScriptTag(type, string) == Element("script", None, None, type, None, None, string)
ImgTag(alt) == Element("img", None, None, None, alt, None, None)
ATag(href) == Element("a", None, None, None, None, href, None)
H1Tag(string) == Element("h1", None, None, None, None, None, string)

\* an absent <head> or <body>
Absent == [present |-> FALSE, children |-> <<>>]
Container(children) == [present |-> TRUE, children |-> children]

\* every element of the tree, in document order
Descendants(soup) ==
    soup.root \o soup.head.children \o soup.body.children

IsTitle(e) == e.tag = "title"
IsMetaDescription(e) == e.tag = "meta" /\ e.name = NAME_DESCRIPTION
IsMetaViewport(e) == e.tag = "meta" /\ e.name = NAME_VIEWPORT
IsLdJson(e) == e.tag = "script" /\ e.type = TYPE_LD_JSON
IsH1(e) == e.tag = "h1"
IsImg(e) == e.tag = "img"
IsLink(e) == e.tag = "a" /\ e.href # None
LacksAlt(e) == e.tag = "img" /\ ~Truthy(e.alt)

\* whether the element is one a search of the program looks for:
\* soup.title, find("meta", attrs={"name": ..}), find("script", attrs=..),
\* find_all("h1"), find_all("img"), find_all("a", href=True), and the
\* images counted by `not img.get("alt")`
Matches(e, what) ==
    CASE what = "title" -> IsTitle(e)
      [] what = "meta description" -> IsMetaDescription(e)
      [] what = "meta viewport" -> IsMetaViewport(e)
      [] what = "script ld+json" -> IsLdJson(e)
      [] what = "h1" -> IsH1(e)
      [] what = "img" -> IsImg(e)
      [] what = "a href" -> IsLink(e)
      [] what = "img without alt" -> LacksAlt(e)

\* soup.find_all(...): the elements looked for, in document order;
\* soup.find(...) is its first element, and None when it is empty
find_all(soup, what) ==
    SelectSeq(Descendants(soup), LAMBDA e : Matches(e, what))

\* BeautifulSoup(text, "html.parser"): the tree of the markup
BeautifulSoup(text) == text.soup

\* str(soup): the tree written out the serializer's way (attributes in
\* double quotes, void elements closed with "/>", entities escaped),
\* whatever way the markup it was parsed from was written
Serialize(soup) == [soup |-> soup, normal |-> TRUE]

-----------------------------------------------------------------------------
(* analyze_website, after the fetch *)

ISSUE_TITLE == "Missing title tag"
ISSUE_META == "Missing meta description"
ISSUE_H1 == "No H1 tag found"
ISSUE_ALT == "Many images missing alt attributes"
ISSUE_LINKS == "Not enough internal/external links"
ISSUE_SHORT == "Page content too short"
ISSUE_MOBILE == "Not mobile-friendly"
ISSUE_SCHEMA == "No structured data found"

FIX_FOR_TITLE == "Add a descriptive <title> tag with keywords."
FIX_FOR_META == "Include a <meta name='description'> tag."
FIX_FOR_H1 == "Add a main <h1> heading."
FIX_FOR_ALT == "Add descriptive alt text for all images."
FIX_FOR_LINKS == "Add more internal/external links to enhance navigation."
FIX_FOR_SHORT == "Add more keyword-rich and valuable content."
FIX_FOR_MOBILE == "Add a responsive viewport meta tag for mobile support."
FIX_FOR_SCHEMA == "Add JSON-LD structured data from schema.org."

\* the eight issues in checklist order, each with its suggestion
CHECKLIST ==
    << <<ISSUE_TITLE, FIX_FOR_TITLE>>, <<ISSUE_META, FIX_FOR_META>>,
       <<ISSUE_H1, FIX_FOR_H1>>, <<ISSUE_ALT, FIX_FOR_ALT>>,
       <<ISSUE_LINKS, FIX_FOR_LINKS>>, <<ISSUE_SHORT, FIX_FOR_SHORT>>,
       <<ISSUE_MOBILE, FIX_FOR_MOBILE>>, <<ISSUE_SCHEMA, FIX_FOR_SCHEMA>> >>

\* title = soup.title.string.strip() if soup.title and soup.title.string
\*         else "No title found"
ExtractTitle(soup) ==
    LET found == find_all(soup, "title")
    IN  IF found # <<>> /\ Truthy(Head(found).string)
        THEN Strip(Head(found).string)
        ELSE NO_TITLE

\* meta_desc = meta["content"].strip() if meta and meta.get("content")
\*             else "No meta description found"
ExtractMetaDesc(soup) ==
    LET found == find_all(soup, "meta description")
    IN  IF found # <<>> /\ Truthy(Head(found).content)
        THEN Strip(Head(found).content)
        ELSE NO_META_DESC

\* a count that takes alt="" for alt text
MissingAltIgnoresEmpty(soup) ==
    Len(SelectSeq(find_all(soup, "img"), LAMBDA e : e.alt = None))

\* missing_alt = sum(1 for img in images if not img.get("alt"))
MissingAlt(soup) == Len(find_all(soup, "img without alt"))

\* a check that forgets its suggestion
CheckDropsFix(st, cond, issue, fix) ==
    IF cond
    THEN [score |-> st.score - PENALTY, issues |-> Append(st.issues, issue),
          fixes |-> st.fixes]
    ELSE st

\* one "if cond: score -= 10; issues.append(..); fixes.append(..)"
Check(st, cond, issue, fix) ==
    IF cond
    THEN [score |-> st.score - PENALTY, issues |-> Append(st.issues, issue),
          fixes |-> Append(st.fixes, fix)]
    ELSE st

\* the six checks of lines 63-86, then the viewport and the schema check
Scoring(soup, title, meta_desc, length) ==
    LET s0 == [score |-> START_SCORE, issues |-> <<>>, fixes |-> <<>>]
        s1 == Check(s0, title = NO_TITLE, ISSUE_TITLE, FIX_FOR_TITLE)
        s2 == Check(s1, meta_desc = NO_META_DESC, ISSUE_META, FIX_FOR_META)
        s3 == Check(s2, Len(find_all(soup, "h1")) = 0, ISSUE_H1, FIX_FOR_H1)
        s4 == Check(s3, MissingAlt(soup) > ALT_THRESHOLD, ISSUE_ALT,
                    FIX_FOR_ALT)
        s5 == Check(s4, Len(find_all(soup, "a href")) < MIN_LINKS, ISSUE_LINKS,
                    FIX_FOR_LINKS)
        s6 == Check(s5, length < MIN_LENGTH, ISSUE_SHORT, FIX_FOR_SHORT)
        s7 == Check(s6, find_all(soup, "meta viewport") = <<>>, ISSUE_MOBILE,
                    FIX_FOR_MOBILE)
        s8 == Check(s7, find_all(soup, "script ld+json") = <<>>, ISSUE_SCHEMA,
                    FIX_FOR_SCHEMA)
    IN  s8

Max(a, b) == IF a >= b THEN a ELSE b
Min(a, b) == IF a <= b THEN a ELSE b

\* score = max(0, min(100, score))
Clamp(score) == Max(0, Min(START_SCORE, score))

\* lines 47-128: the dict analyze_website returns for a fetched response
Analyze(u, resp) ==
    LET soup == BeautifulSoup(resp.text)
        title == ExtractTitle(soup)
        meta_desc == ExtractMetaDesc(soup)
        st == Scoring(soup, title, meta_desc, resp.length)
    IN  [url |-> u, title |-> title, meta_desc |-> meta_desc,
         h1_count |-> Len(find_all(soup, "h1")),
         missing_alt |-> MissingAlt(soup),
         link_count |-> Len(find_all(soup, "a href")),
         seo_score |-> Clamp(st.score),
         report |-> st.issues, fixes |-> st.fixes]

-----------------------------------------------------------------------------
(* analyze_website: the fetch *)

\* what one requests.get can do: return a response, or raise SSLError,
\* another ConnectionError (unreachable host, refused connection), or an
\* exception that is no ConnectionError (ReadTimeout)
OUTCOMES == {"ok", "SSLError", "ConnectionError", "ReadTimeout"}

\* str(e) of an exception raised by requests
RawMessage(kind) ==
    CASE kind = "SSLError" -> "SSLError: certificate verify failed"
      [] kind = "ConnectionError" -> "ConnectionError: Max retries exceeded"
      [] kind = "ReadTimeout" -> "ReadTimeout: Read timed out."

\* one requests.get as the network saw it: who issued it, for which URL,
\* and what it did
Get(by, u, outcome) == [by |-> by, url |-> u, outcome |-> outcome]

Fetched(u, sent) == [ok |-> TRUE, url |-> u, gets |-> sent, error |-> ""]
Failed(u, sent, message) ==
    [ok |-> FALSE, url |-> u, gets |-> sent, error |-> message]

\* url.replace("https://", "http://")
Downgrade(u) == Replace(u, HTTPS_PREFIX, HTTP_PREFIX)

\* lines 36-45 with the outer handler of lines 130-131: `first` is what the
\* GET of line 37 does and `second` what the GET of line 41 does.  An
\* exception raised inside the SSLError handler is not seen by the
\* ConnectionError clause beside it: it reaches line 130 with its own text.
Fetch(u, first, second) ==
    LET g1 == Get("analyze_website", u, first)
        g2 == Get("analyze_website", Downgrade(u), second)
    IN  IF first = "ok" THEN Fetched(u, <<g1>>)
        ELSE IF first = "SSLError"
        THEN IF StartsWith(u, HTTPS_PREFIX)
             THEN IF second = "ok" THEN Fetched(Downgrade(u), <<g1, g2>>)
                  ELSE Failed(Downgrade(u), <<g1, g2>>, RawMessage(second))
             ELSE Failed(u, <<g1>>, RawMessage(first))
        ELSE IF first = "ConnectionError"
        THEN Failed(u, <<g1>>, FAILED_TO_CONNECT)
        ELSE Failed(u, <<g1>>, RawMessage(first))

\* analyze_website(url): the dict it returns and the GETs it issued, when
\* the server answers a successful GET with resp
analyze_website(u, first, second, resp) ==
    LET f == Fetch(u, first, second)
    IN  [gets |-> f.gets,
         result |-> IF f.ok THEN Analyze(f.url, resp)
                    ELSE [error |-> f.error]]

-----------------------------------------------------------------------------
(* generate_fixed_page *)

Raise(st, exception) == [st EXCEPT !.raised = exception]

\* soup.head.insert(0, tag): AttributeError when soup.head is None
HeadInsertFirst(st, tag) ==
    IF st.raised # "none" THEN st
    ELSE IF ~st.soup.head.present THEN Raise(st, "AttributeError")
    ELSE [st EXCEPT !.soup.head.children = <<tag>> \o @]

\* soup.head.append(tag)
HeadAppend(st, tag) ==
    IF st.raised # "none" THEN st
    ELSE IF ~st.soup.head.present THEN Raise(st, "AttributeError")
    ELSE [st EXCEPT !.soup.head.children = Append(@, tag)]

\* soup.body.insert(0, tag)
BodyInsertFirst(st, tag) ==
    IF st.raised # "none" THEN st
    ELSE IF ~st.soup.body.present THEN Raise(st, "AttributeError")
    ELSE [st EXCEPT !.soup.body.children = <<tag>> \o @]

\* if not img.get("alt"): img["alt"] = "AI added image description"
SetAlt(e) == IF LacksAlt(e) THEN [e EXCEPT !.alt = FIX_ALT] ELSE e

SetAltSeq(s) == [i \in 1..Len(s) |-> SetAlt(s[i])]

\* for img in soup.find_all("img"): ...
SetAlts(st) ==
    IF st.raised # "none" THEN st
    ELSE [st EXCEPT !.soup.root = SetAltSeq(@),
                    !.soup.head.children = SetAltSeq(@),
                    !.soup.body.children = SetAltSeq(@)]

\* the JSON-LD text of lines 154-159
SchemaString(u) == SCHEMA_HEAD \o u \o SCHEMA_TAIL

\* a title fix that goes by the title's text, as the analyzer does
FixTitleWhenEmpty(st) ==
    IF st.raised = "none"
       /\ (find_all(st.soup, "title") = <<>>
           \/ ~Truthy(Head(find_all(st.soup, "title")).string))
    THEN HeadInsertFirst(st, new_tag("title", None, None, None, FIX_TITLE))
    ELSE st

\* one "if not soup.find(..): insert" of lines 139-169 each
FixTitle(st) ==
    IF st.raised = "none" /\ find_all(st.soup, "title") = <<>>
    THEN HeadInsertFirst(st, new_tag("title", None, None, None, FIX_TITLE))
    ELSE st

FixMetaDesc(st) ==
    IF st.raised = "none" /\ find_all(st.soup, "meta description") = <<>>
    THEN HeadAppend(st, new_tag("meta", NAME_DESCRIPTION, FIX_META_DESC,
                                None, None))
    ELSE st

FixViewport(st) ==
    IF st.raised = "none" /\ find_all(st.soup, "meta viewport") = <<>>
    THEN HeadAppend(st, new_tag("meta", NAME_VIEWPORT, FIX_VIEWPORT, None,
                                None))
    ELSE st

FixSchema(st, u) ==
    IF st.raised = "none" /\ find_all(st.soup, "script ld+json") = <<>>
    THEN HeadAppend(st, new_tag("script", None, None, TYPE_LD_JSON,
                                SchemaString(u)))
    ELSE st

FixH1(st) ==
    IF st.raised = "none" /\ find_all(st.soup, "h1") = <<>>
    THEN BodyInsertFirst(st, new_tag("h1", None, None, None, FIX_H1))
    ELSE st

\* generate_fixed_page(url, html_content): the exception it raises, or
\* "none" and the text it writes to fixed_sites/corrected_page.html
generate_fixed_page(u, html_content) ==
    LET s0 == [soup |-> BeautifulSoup(html_content), raised |-> "none"]
        s1 == FixTitle(s0)
        s2 == FixMetaDesc(s1)
        s3 == FixViewport(s2)
        s4 == FixSchema(s3, u)
        s5 == SetAlts(s4)
        s6 == FixH1(s5)
    IN  [raised |-> s6.raised, text |-> Serialize(s6.soup)]

-----------------------------------------------------------------------------
(* The documents and requests the model is run on *)

Repeat(e, n) == [i \in 1..n |-> e]

S_HOME == <<" ", "H", "o", "m", "e", " ">>
S_SHOP == <<"S", "h", "o", "p">>
S_BLANK == <<" ">>
S_SLASH == <<"/">>
S_KEYWORDS == <<"k", "e", "y", "w", "o", "r", "d", "s">>

\* no <title>; <title></title>; a blank one; a usual one; one whose text is
\* the analyzer's own placeholder
TITLES ==
    { <<>>, <<TitleTag(None)>>, <<TitleTag(S_BLANK)>>, <<TitleTag(S_HOME)>>,
      <<TitleTag(NO_TITLE)>> }

\* no meta description; one without content; with content=""; a usual one;
\* one whose content is the analyzer's own placeholder
META_DESCRIPTIONS ==
    { <<>>, <<MetaTag(NAME_DESCRIPTION, None)>>,
      <<MetaTag(NAME_DESCRIPTION, <<>>)>>,
      <<MetaTag(NAME_DESCRIPTION, S_SHOP)>>,
      <<MetaTag(NAME_DESCRIPTION, NO_META_DESC)>> }

\* elements the checks must not count: another meta, an image with alt
\* text, an anchor without href
DISTRACTORS ==
    <<MetaTag(S_KEYWORDS, S_SHOP), ImgTag(S_SHOP), ATag(None)>>

Optional(flag, s) == IF flag THEN s ELSE <<>>

HeadParts(p) ==
    p.title \o p.meta
    \o Optional(p.viewport, <<MetaTag(NAME_VIEWPORT, FIX_VIEWPORT)>>)
    \o Optional(p.ldjson, <<ScriptTag(TYPE_LD_JSON, S_SHOP)>>)

BodyParts(p) ==
    Repeat(H1Tag(S_SHOP), p.h1) \o Repeat(ImgTag(None), p.noAlt)
    \o Optional(p.emptyAlt, <<ImgTag(<<>>)>>)
    \o Optional(p.distractors, DISTRACTORS)
    \o Repeat(ATag(S_SLASH), p.links)

\* the tree html.parser builds: the elements outside a <head> or <body>
\* hang from the root
PageSoup(p) ==
    [root |-> Optional(~p.hasHead, HeadParts(p))
              \o Optional(~p.hasBody, BodyParts(p)),
     head |-> IF p.hasHead THEN Container(HeadParts(p)) ELSE Absent,
     body |-> IF p.hasBody THEN Container(BodyParts(p)) ELSE Absent]

Markup(soup, normal) == [soup |-> soup, normal |-> normal]

\* len(response.text) on either side of the threshold
LENGTHS == {MIN_LENGTH - 1, MIN_LENGTH}

AnalyzerParams ==
    [hasHead : {TRUE}, hasBody : {TRUE}, title : TITLES,
     meta : META_DESCRIPTIONS, viewport : BOOLEAN, ldjson : BOOLEAN,
     h1 : 0..MaxH1, noAlt : 0..MaxNoAlt, emptyAlt : BOOLEAN,
     distractors : BOOLEAN, links : 0..MaxLinks]

FixerParams ==
    [hasHead : BOOLEAN, hasBody : BOOLEAN, title : TITLES,
     meta : META_DESCRIPTIONS, viewport : BOOLEAN, ldjson : BOOLEAN,
     h1 : 0..MaxH1, noAlt : {0, MaxNoAlt}, emptyAlt : BOOLEAN,
     distractors : BOOLEAN, links : {0}]

\* a page passing every check, a page with nothing, and a bare text without
\* <head> and <body>
GoodPage ==
    [hasHead |-> TRUE, hasBody |-> TRUE, title |-> <<TitleTag(S_HOME)>>,
     meta |-> <<MetaTag(NAME_DESCRIPTION, S_SHOP)>>, viewport |-> TRUE,
     ldjson |-> TRUE, h1 |-> 1, noAlt |-> 0, emptyAlt |-> FALSE,
     distractors |-> FALSE, links |-> MIN_LINKS]
EmptyPage ==
    [hasHead |-> TRUE, hasBody |-> TRUE, title |-> <<>>, meta |-> <<>>,
     viewport |-> FALSE, ldjson |-> FALSE, h1 |-> 0, noAlt |-> 0,
     emptyAlt |-> FALSE, distractors |-> FALSE, links |-> 0]
BarePage == [EmptyPage EXCEPT !.hasHead = FALSE, !.hasBody = FALSE]

HomeResponses ==
    { [text |-> Markup(PageSoup(GoodPage), FALSE), length |-> MIN_LENGTH],
      [text |-> Markup(PageSoup(EmptyPage), TRUE), length |-> MIN_LENGTH - 1],
      [text |-> Markup(PageSoup(BarePage), TRUE), length |-> MIN_LENGTH - 1] }

U_HTTPS == <<"h", "t", "t", "p", "s", ":", "/", "/", "a", ".", "i", "o">>
U_HTTP == <<"h", "t", "t", "p", ":", "/", "/", "a", ".", "i", "o">>
U_BARE == <<"a", ".", "i", "o">>
U_UPPER == <<"H", "T", "T", "P", ":", "/", "/", "a", ".", "i", "o">>
\* a URL that carries another URL in its path, as an archive's does
U_NESTED == U_HTTPS \o <<"/">> \o U_HTTPS

\* the website_url field as submitted: with and without a scheme, with
\* spaces around it, in capitals
FORM_URLS ==
    { U_HTTPS, U_HTTP, <<" ">> \o U_HTTPS \o <<" ">>, U_BARE, U_UPPER,
      U_NESTED }

\* the ownership field as submitted
FORM_OWNERSHIP == { YES, <<"Y", "e", "s">>, NO }

-----------------------------------------------------------------------------
(* Values of the variables when nothing has been stored in them *)

NoResult == [none |-> TRUE]
NoResponse == [none |-> TRUE]
NoMarkup == [none |-> TRUE]
NoFile == [exists |-> FALSE]

-----------------------------------------------------------------------------
(* The scan request handler, the history table and the process *)

\* a table created anew at every start
InitDbRecreates(exists, rows) == <<>>

\* init_db(): CREATE TABLE IF NOT EXISTS keeps the rows of an existing table
init_db_table(exists, rows) == IF exists THEN rows ELSE <<>>

init_db ==
    /\ pc = "boot"
    /\ tableExists' = TRUE
    /\ history' = init_db_table(tableExists, history)
    /\ pc' = "serving"
    /\ UNCHANGED <<url, ownership, response, scan, result, gets, unhandled, html,
                   fixedFile, prevFile, served>>

\* INSERT INTO seo_results (url, seo_score, timestamp): the id is the
\* AUTOINCREMENT key; the timestamp is the clock's and is not modelled
InsertRow(rows, u, score) ==
    Append(rows, [id |-> Len(rows) + 1, url |-> u, seo_score |-> score])

\* a prefix test that ignores case
ValidUrlIgnoresCase(u) ==
    StartsWith(Lower(u), HTTP_PREFIX) \/ StartsWith(Lower(u), HTTPS_PREFIX)

\* url.startswith(("http://", "https://"))
ValidUrl(u) == StartsWith(u, HTTP_PREFIX) \/ StartsWith(u, HTTPS_PREFIX)

\* ownership.lower() == "yes"
Owns(o) == Lower(o) = YES

OWNED_MESSAGE == "You own this site. AI auto-fix applied."
NOT_OWNED_MESSAGE == "You don't own this site. Only suggestions shown."

\* the outcomes of the GET of line 41, which is issued only after the GET of
\* line 37 raised SSLError
SecondOutcomes(first) == IF first = "SSLError" THEN OUTCOMES ELSE {"ok"}

\* what the server answers a GET that succeeds; a GET that raised has no
\* response
Responses(ok, pages) == IF ok THEN pages ELSE {NoResponse}

\* lines 196-203, after the INSERT: `third` is what the GET of line 198 does
\* and resp3 the response it returns.  Nothing catches what the GET or
\* generate_fixed_page raises.
AutoFix(u, form_ownership, a) ==
    IF ~Owns(form_ownership)
    THEN /\ result' = a.result @@ [ownership_message |-> NOT_OWNED_MESSAGE]
         /\ gets' = a.gets
         /\ unhandled' = "none"
         /\ UNCHANGED fixedFile
    ELSE \E third \in OUTCOMES :
         \E resp3 \in Responses(third = "ok", HomeResponses) :
            LET fix == generate_fixed_page(u, resp3.text)
            IN  /\ gets' = Append(a.gets, Get("home", u, third))
                /\ IF third # "ok"
                   THEN /\ unhandled' = third
                        /\ result' = NoResult
                        /\ UNCHANGED fixedFile
                   ELSE IF fix.raised # "none"
                   THEN /\ unhandled' = fix.raised
                        /\ result' = NoResult
                        /\ UNCHANGED fixedFile
                   ELSE /\ unhandled' = "none"
                        /\ fixedFile' = [exists |-> TRUE, text |-> fix.text]
                        /\ result' = a.result @@
                               [fixed_path |-> FILE_PATH,
                                ownership_message |-> OWNED_MESSAGE]

\* lines 187-203: `first` and `second` are what the GETs of lines 37 and 41
\* do and resp the response the analyzer reads
Scan(u, form_ownership) ==
    \E first \in OUTCOMES :
    \E second \in SecondOutcomes(first) :
    \E resp \in Responses(Fetch(u, first, second).ok, HomeResponses) :
       LET a == analyze_website(u, first, second, resp)
       IN  /\ scan' = a.result
           /\ response' = resp
           /\ IF "error" \in DOMAIN a.result
              THEN /\ result' = a.result
                   /\ gets' = a.gets
                   /\ unhandled' = "none"
                   /\ UNCHANGED <<history, fixedFile>>
              ELSE /\ history' = InsertRow(history, u, a.result.seo_score)
                   /\ AutoFix(u, form_ownership, a)

\* home() on a POST with the form fields website_url and ownership
home_post(form_url, form_ownership) ==
    LET u == Strip(form_url)
    IN  /\ pc = "serving"
        /\ served < MaxRequests
        /\ served' = served + 1
        /\ url' = u
        /\ ownership' = form_ownership
        /\ UNCHANGED <<pc, tableExists, html, prevFile>>
        /\ IF ~ValidUrl(u)
           THEN /\ result' = [error |-> INVALID_URL]
                /\ scan' = NoResult
                /\ response' = NoResponse
                /\ gets' = <<>>
                /\ unhandled' = "none"
                /\ UNCHANGED <<history, fixedFile>>
           ELSE Scan(u, form_ownership)

\* home() on a GET: the page is rendered with result = None
home_get ==
    /\ pc = "serving"
    /\ url' = None
    /\ ownership' = NO
    /\ result' = NoResult
    /\ gets' = <<>>
    /\ unhandled' = "none"
    /\ response' = NoResponse
    /\ scan' = NoResult
    /\ UNCHANGED <<pc, history, tableExists, html, fixedFile, prevFile,
                   served>>

\* the process is stopped and started again: line 24 runs anew on the
\* database and the fixed_sites directory the last run left
Restart ==
    /\ pc = "serving"
    /\ pc' = "boot"
    /\ url' = None
    /\ ownership' = NO
    /\ result' = NoResult
    /\ gets' = <<>>
    /\ unhandled' = "none"
    /\ response' = NoResponse
    /\ scan' = NoResult
    /\ UNCHANGED <<history, tableExists, html, fixedFile, prevFile, served>>

Init ==
    /\ pc = "boot"
    /\ url = None
    /\ ownership = NO
    /\ response = NoResponse
    /\ scan = NoResult
    /\ result = NoResult
    /\ gets = <<>>
    /\ unhandled = "none"
    /\ history = <<>>
    /\ tableExists = FALSE
    /\ html = NoMarkup
    /\ fixedFile = NoFile
    /\ prevFile = NoFile
    /\ served = 0

Next ==
    \/ init_db
    \/ \E form_url \in FORM_URLS, form_ownership \in FORM_OWNERSHIP :
          home_post(form_url, form_ownership)
    \/ home_get
    \/ Restart

Spec == Init /\ [][Next]_vars

-----------------------------------------------------------------------------
(* analyze_website on every page of AnalyzerParams *)

Idle ==
    /\ url = None
    /\ ownership = NO
    /\ response = NoResponse
    /\ scan = NoResult
    /\ result = NoResult
    /\ gets = <<>>
    /\ unhandled = "none"
    /\ history = <<>>
    /\ tableExists = TRUE
    /\ html = NoMarkup
    /\ fixedFile = NoFile
    /\ prevFile = NoFile
    /\ served = 0

InitAnalyzer == pc = "request" /\ Idle

\* one call analyze_website(url)
Analysis(u) ==
    /\ pc = "request"
    /\ \E first \in OUTCOMES :
       \E second \in SecondOutcomes(first) :
       \E resp \in Responses(Fetch(u, first, second).ok,
                             { [text |-> Markup(PageSoup(p), TRUE),
                                length |-> n] :
                               p \in AnalyzerParams, n \in LENGTHS }) :
          LET a == analyze_website(u, first, second, resp)
          IN  /\ scan' = a.result
              /\ result' = a.result
              /\ response' = resp
              /\ gets' = a.gets
    /\ url' = u
    /\ pc' = "analyzed"
    /\ UNCHANGED <<ownership, unhandled, history, tableExists, html,
                   fixedFile, prevFile, served>>

NextAnalyzer == Analysis(U_HTTPS)

SpecAnalyzer == InitAnalyzer /\ [][NextAnalyzer]_vars

-----------------------------------------------------------------------------
(* generate_fixed_page on every page of FixerParams *)

InitFixer ==
    /\ pc = "markup"
    /\ url = U_HTTPS
    /\ ownership = YES
    /\ response = NoResponse
    /\ scan = NoResult
    /\ result = NoResult
    /\ gets = <<>>
    /\ unhandled = "none"
    /\ history = <<>>
    /\ tableExists = TRUE
    /\ html \in { Markup(PageSoup(p), normal) :
                  p \in FixerParams, normal \in BOOLEAN }
    /\ fixedFile = NoFile
    /\ prevFile = NoFile
    /\ served = 0

\* path = generate_fixed_page(url, text), the file written on return
WriteFixed(text, next) ==
    LET fix == generate_fixed_page(url, text)
    IN  IF fix.raised # "none"
        THEN /\ unhandled' = fix.raised
             /\ pc' = "raised"
             /\ UNCHANGED <<fixedFile, prevFile>>
        ELSE /\ prevFile' = fixedFile
             /\ fixedFile' = [exists |-> TRUE, text |-> fix.text]
             /\ pc' = next
             /\ UNCHANGED unhandled

\* the auto-fixer on the markup
FixPage ==
    /\ pc = "markup"
    /\ WriteFixed(html, "fixed")
    /\ UNCHANGED <<url, ownership, response, scan, result, gets, history,
                   tableExists, html, served>>

\* the auto-fixer on the file it wrote
FixAgain ==
    /\ pc = "fixed"
    /\ WriteFixed(fixedFile.text, "refixed")
    /\ UNCHANGED <<url, ownership, response, scan, result, gets, history,
                   tableExists, html, served>>

\* the analyzer on the file the auto-fixer wrote, served at either length
AnalyzeFixed ==
    /\ pc = "fixed"
    /\ \E n \in LENGTHS :
          /\ response' = [text |-> fixedFile.text, length |-> n]
          /\ scan' = Analyze(url, response')
          /\ result' = scan'
    /\ pc' = "reanalyzed"
    /\ UNCHANGED <<url, ownership, gets, unhandled, history, tableExists,
                   html, fixedFile, prevFile, served>>

NextFixer == FixPage \/ FixAgain \/ AnalyzeFixed

SpecFixer == InitFixer /\ [][NextFixer]_vars

-----------------------------------------------------------------------------
(* Properties of the analyzer (SpecAnalyzer) *)

\* the scan of this request succeeded: analyze_website returned no error
Scanned == "seo_score" \in DOMAIN scan

\* the elements of the analyzed document with the given tag
Tagged(resp, tag) ==
    SelectSeq(Descendants(resp.text.soup), LAMBDA e : e.tag = tag)

\* the <meta> elements of the analyzed document with the given name
MetaNamed(resp, name) ==
    SelectSeq(Tagged(resp, "meta"), LAMBDA e : e.name = name)

\* the number of images without a non-empty alt
AltLess(resp) ==
    Len(SelectSeq(Tagged(resp, "img"), LAMBDA e : e.alt \in {None, <<>>}))

\* the number of anchors with an href
Hrefs(resp) == Len(SelectSeq(Tagged(resp, "a"), LAMBDA e : e.href # None))

\* the eight checklist conditions as the checklist words them
Conditions(resp) ==
    << Tagged(resp, "title") = <<>>
           \/ Head(Tagged(resp, "title")).string \in {None, <<>>},
       MetaNamed(resp, NAME_DESCRIPTION) = <<>>
           \/ Head(MetaNamed(resp, NAME_DESCRIPTION)).content
                  \in {None, <<>>},
       Len(Tagged(resp, "h1")) = 0,
       AltLess(resp) > 5,
       Hrefs(resp) < 5,
       resp.length < 500,
       MetaNamed(resp, NAME_VIEWPORT) = <<>>,
       SelectSeq(Tagged(resp, "script"), LAMBDA e : e.type = TYPE_LD_JSON)
           = <<>> >>

\* the issues whose condition holds, in checklist order
ExpectedIssues(resp) ==
    LET failing == SelectSeq(<<1, 2, 3, 4, 5, 6, 7, 8>>,
                             LAMBDA i : Conditions(resp)[i])
    IN  [k \in 1..Len(failing) |-> CHECKLIST[failing[k]][1]]

\* C1: a successful scan reports each of the eight issues if and only if its
\* checklist condition holds of the fetched document, in checklist order; a
\* document satisfying every check has no issue and score 100.
C1_IssuesIffConditions ==
    (pc = "analyzed" /\ Scanned) =>
        /\ scan.report = ExpectedIssues(response)
        /\ (ExpectedIssues(response) = <<>> => scan.seo_score = 100)

\* C2: the score of a successful scan is 100 minus 10 per reported issue, an
\* integer of 0..100, and fixes[i] is the suggestion of the check that
\* reported issues[i].
C2_ScoreAndFixes ==
    (pc = "analyzed" /\ Scanned) =>
        /\ scan.seo_score = 100 - 10 * Len(scan.report)
        /\ scan.seo_score \in 0..100
        /\ Len(scan.fixes) = Len(scan.report)
        /\ \A i \in 1..Len(scan.report) :
              \E j \in 1..Len(CHECKLIST) :
                 CHECKLIST[j] = <<scan.report[i], scan.fixes[i]>>

\* C2 witness: a scan that reported three issues or more
C2_Witness ==
    /\ pc = "analyzed" /\ Scanned
    /\ Len(scan.report) >= 3
    /\ scan.seo_score = 100 - 10 * Len(scan.report)

\* a document failing every check, as C3 describes it
FailsEveryCheck(resp) ==
    /\ Tagged(resp, "title") = <<>>
    /\ MetaNamed(resp, NAME_DESCRIPTION) = <<>>
    /\ Tagged(resp, "h1") = <<>>
    /\ MetaNamed(resp, NAME_VIEWPORT) = <<>>
    /\ SelectSeq(Tagged(resp, "script"), LAMBDA e : e.type = TYPE_LD_JSON)
           = <<>>
    /\ Hrefs(resp) < 5
    /\ resp.length < 500
    /\ AltLess(resp) > 5

ReportsAllEight ==
    \A j \in 1..Len(CHECKLIST) :
       \E i \in 1..Len(scan.report) : scan.report[i] = CHECKLIST[j][1]

\* C3 as stated: a document failing every check scores 0 and has all eight
\* issues.
C3_ScoreZero ==
    (pc = "analyzed" /\ Scanned /\ FailsEveryCheck(response)) =>
        scan.seo_score = 0 /\ ReportsAllEight

\* C3 as amended: a document failing every check scores 20, which is 100
\* less eight penalties of 10, and has all eight issues.
C3_ScoreTwenty ==
    (pc = "analyzed" /\ Scanned /\ FailsEveryCheck(response)) =>
        scan.seo_score = 20 /\ ReportsAllEight

\* C3 witness: a document failing every check has been scanned
C3_Witness ==
    /\ pc = "analyzed" /\ Scanned
    /\ FailsEveryCheck(response)
    /\ Len(scan.report) = 8

-----------------------------------------------------------------------------
(* Properties of the request handler (Spec) *)

\* the URL starts with "http://" or "https://"
HasScheme(u) ==
    \/ Len(u) >= 7 /\ SubSeq(u, 1, 7) = HTTP_PREFIX
    \/ Len(u) >= 8 /\ SubSeq(u, 1, 8) = HTTPS_PREFIX

\* this step handles a POST
Handles == served' = served + 1

\* C4: handling a request whose trimmed URL has no http:// or https://
\* prefix renders the validation error, issues no GET, writes no history
\* row and leaves the fixed page alone, whatever the ownership field.
C4_RejectedBeforeFetch ==
    [][(Handles /\ ~HasScheme(url')) =>
           /\ result' = [error |-> INVALID_URL]
           /\ gets' = <<>>
           /\ history' = history
           /\ fixedFile' = fixedFile]_vars

\* C4 witness: a bare host name was rejected with ownership asserted, after
\* an earlier request had written a history row and a fixed page
C4_Witness ==
    /\ url = U_BARE
    /\ Lower(ownership) = YES
    /\ result = [error |-> INVALID_URL]
    /\ gets = <<>>
    /\ Len(history) = 1
    /\ fixedFile.exists

\* the GETs analyze_website issued for this request
AnalysisGets == SelectSeq(gets, LAMBDA g : g.by = "analyze_website")

\* the URL with its leading "https://" turned into "http://"
HttpEquivalent(u) == HTTP_PREFIX \o SubSeq(u, 9, Len(u))

\* C5: an SSL failure of the first GET on an https:// URL is followed by
\* exactly one retry, on the http:// equivalent, and the result carries that
\* URL; on an http:// URL it is followed by no retry and its own message is
\* returned; no analysis issues more than two GETs.
C5_RetryOnce ==
    LET ag == AnalysisGets
    IN  /\ Len(ag) <= 2
        /\ (Len(ag) = 2 => ag[1].outcome = "SSLError")
        /\ (ag # <<>> /\ ag[1].outcome = "SSLError") =>
              IF SubSeq(ag[1].url, 1, 8) = HTTPS_PREFIX
              THEN /\ Len(ag) = 2
                   /\ ag[2].url = HttpEquivalent(ag[1].url)
                   /\ (Scanned => scan.url = HttpEquivalent(ag[1].url))
              ELSE /\ Len(ag) = 1
                   /\ scan = [error |-> RawMessage("SSLError")]

\* C6: when a GET of the analysis fails because the host is unreachable or
\* refuses the connection, on the first attempt or on the retry, the error
\* is the fixed text; every other failure returns its own message.
C6_HostUnreachable ==
    LET ag == AnalysisGets
        last == ag[Len(ag)].outcome
    IN  (ag # <<>> /\ last # "ok") =>
            scan = [error |-> IF last = "ConnectionError"
                              THEN FAILED_TO_CONNECT
                              ELSE RawMessage(last)]

\* C7: no failure leaves home() uncaught, and a request in which a fetch
\* failed for good renders an error and no field of a scan result.
C7_FailuresCaught ==
    /\ unhandled = "none"
    /\ (gets # <<>> /\ gets[Len(gets)].outcome # "ok") =>
           DOMAIN result = {"error"}

\* C8: a step appends exactly one history row, with the URL and the score
\* of the scan, when it handles a request whose scan succeeded, and leaves
\* the history as it is otherwise.
C8_HistoryAppendOnly ==
    [][IF Handles /\ "seo_score" \in DOMAIN scan'
       THEN /\ Len(history') = Len(history) + 1
            /\ SubSeq(history', 1, Len(history)) = history
            /\ history'[Len(history')].seo_score = scan'.seo_score
            /\ history'[Len(history')].url = url'
       ELSE history' = history]_vars

\* C8 witness: the process was restarted with two rows of different scores
\* in the table and came back up with both
C8_Witness ==
    /\ pc = "serving"
    /\ served = 2
    /\ url = None
    /\ Len(history) = 2
    /\ history[1].seo_score # history[2].seo_score

-----------------------------------------------------------------------------
(* Properties of the auto-fixer (SpecFixer) *)

\* the image has alt text
HasAltText(e) == e.alt \notin {None, <<>>}

\* the elements of the tree of one of the kinds the auto-fixer inserts, in
\* document order
Of(soup, kind) ==
    SelectSeq(Descendants(soup),
              LAMBDA e :
                 CASE kind = "title" -> e.tag = "title"
                   [] kind = "description" ->
                          e.tag = "meta" /\ e.name = NAME_DESCRIPTION
                   [] kind = "viewport" ->
                          e.tag = "meta" /\ e.name = NAME_VIEWPORT
                   [] kind = "structured data" ->
                          e.tag = "script" /\ e.type = TYPE_LD_JSON
                   [] kind = "h1" -> e.tag = "h1"
                   [] kind = "img" -> e.tag = "img")

INSERTED_KINDS == {"title", "description", "viewport", "structured data", "h1"}

\* every element of a kind the input has is in the output as it was, and
\* the output has no other element of that kind; every image that had alt
\* text is as it was
KeepsWhatIsThere(in, out) ==
    /\ \A kind \in INSERTED_KINDS :
          Of(in, kind) # <<>> => Of(out, kind) = Of(in, kind)
    /\ Len(Of(out, "img")) = Len(Of(in, "img"))
    /\ \A i \in 1..Len(Of(in, "img")) :
          HasAltText(Of(in, "img")[i]) => Of(out, "img")[i] = Of(in, "img")[i]

\* the document has all five kinds and alt text on every image
Compliant(soup) ==
    /\ \A kind \in INSERTED_KINDS : Of(soup, kind) # <<>>
    /\ \A i \in 1..Len(Of(soup, "img")) : HasAltText(Of(soup, "img")[i])

\* C9 as stated: the auto-fixer keeps every element of the six kinds it
\* finds and adds none of that kind, writes a compliant document back
\* unchanged, and changes nothing when run on its own output.
C9_WrittenBackUnchanged ==
    /\ pc \in {"fixed", "refixed", "reanalyzed"} =>
           KeepsWhatIsThere(html.soup, fixedFile.text.soup)
    /\ (pc = "fixed" /\ Compliant(html.soup)) => fixedFile.text = html
    /\ pc = "refixed" => fixedFile = prevFile

\* C9 as amended: the auto-fixer keeps every element of the six kinds it
\* finds and adds none of that kind, writes a compliant document back with
\* the tree it had (the markup being the serializer's), and changes nothing
\* when run on its own output.
C9_TreeUnchanged ==
    /\ pc \in {"fixed", "refixed", "reanalyzed"} =>
           KeepsWhatIsThere(html.soup, fixedFile.text.soup)
    /\ (pc = "fixed" /\ Compliant(html.soup)) =>
           fixedFile.text.soup = html.soup
    /\ pc = "refixed" => fixedFile = prevFile

\* C9 witness: a compliant document with images, not written the
\* serializer's way, went through the auto-fixer twice
C9_Witness ==
    /\ pc = "refixed"
    /\ Compliant(html.soup)
    /\ Of(html.soup, "img") # <<>>
    /\ ~html.normal
    /\ fixedFile.exists /\ prevFile.exists

\* C10: the analyzer reports none of the six issues the auto-fixer deals
\* with on the page the auto-fixer wrote for a document with a head and a
\* body.
C10_FixedPageIsClean ==
    (pc = "reanalyzed" /\ html.soup.head.present /\ html.soup.body.present)
        => \A i \in 1..Len(scan.report) :
              scan.report[i] \notin
                  {ISSUE_TITLE, ISSUE_META, ISSUE_H1, ISSUE_ALT,
                   ISSUE_MOBILE, ISSUE_SCHEMA}

=============================================================================
